---- MODULE Spec2Model ----
(***************************************************************************)
(* Membership / payment lifecycle of the gym management application        *)
(* (gym_app/models.py, gym_app/views.py, management/commands).             *)
(*                                                                         *)
(* Every request handler runs to completion as one action; the actions of *)
(* the views are POST requests (a GET passes the same checks and renders   *)
(* a form without writing).  date.today() is the variable "today", counted *)
(* in days and advanced by Tick; timezone.now() is "clock" seconds into    *)
(* that day, advanced by Advance.  Dates of payments, approvals and        *)
(* archivals are kept to the day, times of attendance to the second.       *)
(* Requests whose interleaving matters also run in two steps, a read step  *)
(* that leaves a record in "inflight" and a write step that removes it.    *)
(***************************************************************************)
EXTENDS Integers, Sequences, FiniteSets, TLC

\* ---------------------------------------------------------------- bounds
MaxDay == 2            \* last calendar day reached by Tick
MaxMemberships == 2    \* rows of the user_memberships table
MaxPlans == 2          \* rows ever inserted into membership_plans
MaxAudit == 6          \* rows of the audit_logs table
MaxAttendance == 2     \* rows of the attendance table
MaxWalkIns == 2        \* rows of the walk_in_payments table
MaxClock == 90         \* last second of a day reached by Advance
MaxInflight == 2       \* requests between their read step and their write step

\* ---------------------------------------------------------------- inputs
Members == {"m1", "m2"}
Users == {"m1", "m2", "st", "ad"}   \* two members, one staff user, one admin
Clients == {"m1", "st", "ad"}       \* the users whose requests are explored
Editors == {"m1", "st"}             \* ... whose catalogue edits are explored
Durations == {-1, 2}                \* duration_days posted to manage_plans
Prices == {5, 15}                   \* price posted to manage_plans
Reasons == {"", "unpaid"}           \* reason posted to reject_payment
Pins == {"111111", "222222"}        \* draws of the PIN generator
Suffixes == {"000001", "000002"}    \* draws of the reference generator
TypedReferences == {<<>>, <<"GC1">>, <<"WLK", 0, "000001">>}  \* reference typed at a walk-in sale
SixDigit == Pins \cup {"333333"}     \* the six-digit strings typed at the kiosk
KioskInputs == SixDigit \cup {"12ab"} \* ... and one string that is not six digits

None == "None"                      \* NULL in a foreign key or text column
NoDate == -99                       \* NULL in a date or integer column

VARIABLES
    today,          \* date.today()
    clock,          \* seconds of timezone.now() since the start of today
    users,          \* table users:             username -> row
    plans,          \* table membership_plans:  id -> row
    passes,         \* table flexible_access:   id -> row
    memberships,    \* table user_memberships:  id -> row
    payments,       \* table payments:          id -> row
    walkin_payments,\* table walk_in_payments: id -> row
    pending_walkin, \* request.session['pending_walkin'] of each user: <<>> or <<row>>
    analytics,      \* table analytics:        sequence of rows
    attendance,     \* table attendance:       id -> row
    audit,          \* table audit_logs, oldest first
    inflight,       \* requests that have read the database and not yet written
    last            \* the request (or job) handled by the last step

vars == <<today, clock, users, plans, passes, memberships, payments, walkin_payments,
          pending_walkin, attendance, analytics, audit, inflight, last>>
db == <<users, plans, passes, memberships, payments, walkin_payments, pending_walkin,
        attendance, analytics, audit, inflight>>

\* ---------------------------------------------------------------- User
\* models.py User.save: role is synchronised with the Django flags
User_save(u) ==
    LET r1 == IF u.is_superuser /\ u.role # "admin" THEN "admin" ELSE u.role
        r2 == IF u.is_staff /\ r1 = "member" /\ ~u.is_superuser THEN "staff" ELSE r1
    IN  [u EXCEPT !.role = r2]

is_admin(u) == users[u].role = "admin" \/ users[u].is_superuser

is_staff_or_admin(u) ==
    \/ users[u].role \in {"admin", "staff"}
    \/ users[u].is_superuser
    \/ users[u].is_staff

\* candidates the loop of generate_kiosk_pin can return: not stored on any user
FreePins == {p \in Pins : \A u \in Users : users[u].kiosk_pin # p}

\* User.generate_kiosk_pin: self.kiosk_pin = pin; self.save()
User_generate_kiosk_pin(us, u, pin) ==
    [us EXCEPT ![u] = User_save([us[u] EXCEPT !.kiosk_pin = pin])]

\* ---------------------------------------------------------------- AuditLog
AuditEntry(action, user, severity) ==
    [action |-> action, user |-> user, severity |-> severity]

AuditLog_log(log, action, user, severity) ==
    Append(log, AuditEntry(action, user, severity))

\* ---------------------------------------------------------------- UserMembership
\* a save() that forgets the plan's duration
UserMembership_save_NoDuration(m) ==
    LET e == IF m.end_date = NoDate THEN m.start_date ELSE m.end_date
    IN  [m EXCEPT !.end_date = e,
                  !.status = IF e < today THEN "expired" ELSE m.status]

\* models.py UserMembership.save
UserMembership_save(m) ==
    LET e == IF m.end_date = NoDate
             THEN m.start_date + plans[m.plan].duration_days
             ELSE m.end_date
    IN  [m EXCEPT !.end_date = e,
                  !.status = IF e < today THEN "expired" ELSE m.status]

\* models.py UserMembership.is_active
UserMembership_is_active(m) == m.status = "active" /\ m.end_date >= today

\* views.py: UserMembership.objects.filter(user=..., status='active')
ActiveMemberships(u) ==
    {i \in DOMAIN memberships :
        memberships[i].user = u /\ memberships[i].status = "active"}

\* views.py member_dashboard, membership_plans_view:
\* filter(user=user, status='active').first() under Meta.ordering ['-start_date'];
\* the rows first() can return
current_membership(u) ==
    {i \in ActiveMemberships(u) :
        \A j \in ActiveMemberships(u) :
            memberships[j].start_date <= memberships[i].start_date}

\* a filter that forgets the end date
kiosk_memberships_AnyDate(u) ==
    {i \in DOMAIN memberships :
        /\ memberships[i].user = u
        /\ memberships[i].status = "active"}

\* views.py kiosk_login, models.py User.has_kiosk_access:
\* filter(user=user, status='active', end_date__gte=date.today())
kiosk_memberships(u) ==
    {i \in DOMAIN memberships :
        /\ memberships[i].user = u
        /\ memberships[i].status = "active"
        /\ memberships[i].end_date >= today}

\* ---------------------------------------------------------------- Payment
Reference(day, suffix) == <<"PAY", day, suffix>>

\* Payment.generate_reference_number: candidates not stored on any payment
FreshSuffixes ==
    {s \in Suffixes :
        \A i \in DOMAIN payments : payments[i].reference_no # Reference(today, s)}

\* a purchase that activates at once (the code before payments were confirmed)
NewMembershipStatus_Active == "active"

\* status given to the membership created by subscribe_plan
NewMembershipStatus == "pending"

\* get_object_or_404(MembershipPlan, id=plan_id, is_active=True)
PlanFound(plan_id) ==
    /\ plan_id \in DOMAIN plans
    /\ ~plans[plan_id].deleted
    /\ plans[plan_id].is_active

\* a lookup that forgets the status filter
PendingPaymentFound_AnyStatus(payment_id) == payment_id \in DOMAIN payments

\* get_object_or_404(Payment, id=payment_id, status='pending')
PendingPaymentFound(payment_id) ==
    /\ payment_id \in DOMAIN payments
    /\ payments[payment_id].status = "pending"

\* ---------------------------------------------------------------- responses
Request(op, actor, target, result) ==
    [op |-> op, actor |-> actor, target |-> target,
     result |-> result]

\* a request that is refused: nothing is written; the record keeps the user or
\* the row id that the refusing check looked at
Respond(op, actor, target, result) ==
    /\ last' = Request(op, actor, target, result)
    /\ UNCHANGED <<today, users, plans, memberships, payments, walkin_payments, passes, pending_walkin, clock, inflight, attendance,
                   analytics, audit>>

\* ---------------------------------------------------------------- initial state
InitUser(role, staff, super) ==
    [role |-> role, is_staff |-> staff, is_superuser |-> super, kiosk_pin |-> None]

Plan(duration, price) ==
    [duration_days |-> duration, price |-> price, is_active |-> TRUE,
     is_archived |-> FALSE, archived_at |-> NoDate, archived_by |-> None,
     deleted |-> FALSE]

Init ==
    /\ today = 0
    /\ users = [u \in Users |->
                  IF u \in Members THEN InitUser("member", FALSE, FALSE)
                  ELSE IF u = "st" THEN InitUser("staff", TRUE, FALSE)
                  ELSE InitUser("admin", TRUE, TRUE)]
    /\ clock = 0
    /\ plans = <<Plan(1, 5)>>
    /\ passes = <<Plan(1, 5)>>
    /\ pending_walkin = [u \in Users |-> <<>>]
    /\ inflight = <<>>
    /\ memberships = <<>>
    /\ payments = <<>>
    /\ walkin_payments = <<>>
    /\ analytics = <<>>
    /\ attendance = <<>>
    /\ audit = <<>>
    /\ last = Request("init", None, 0, "ok")

\* ---------------------------------------------------------------- subscribe_plan
subscribe_plan(u, plan_id) ==
    IF users[u].role # "member"
    THEN Respond("subscribe_plan", u, 0, "denied")
    ELSE IF ~PlanFound(plan_id)
    THEN Respond("subscribe_plan", None, plan_id, "not_found")
    ELSE IF ActiveMemberships(u) # {}
    THEN Respond("subscribe_plan", u, 0, "already_active")
    ELSE
        /\ Len(memberships) < MaxMemberships
        /\ Len(audit) + 2 <= MaxAudit
        /\ \E s \in FreshSuffixes :
            LET membership == UserMembership_save(
                    [user |-> u, plan |-> plan_id, start_date |-> today,
                     end_date |-> NoDate, status |-> NewMembershipStatus])
                mid == Len(memberships) + 1
                payment == [user |-> u, membership |-> mid,
                            amount |-> plans[plan_id].price,
                            payment_date |-> today,
                            reference_no |-> Reference(today, s),
                            status |-> "pending",
                            approved_by |-> None, approved_at |-> NoDate,
                            rejection_reason |-> None]
            IN  /\ memberships' = Append(memberships, membership)
                /\ payments' = Append(payments, payment)
                /\ audit' = AuditLog_log(
                               AuditLog_log(audit, "membership_created", u, "info"),
                               "payment_received", u, "info")
                /\ last' = Request("subscribe_plan", u, plan_id, "created")
                /\ UNCHANGED <<today, users, plans, walkin_payments, passes, pending_walkin, clock, inflight, attendance, analytics>>

\* ---------------------------------------------------------------- confirm_payment
\* models.py Payment.confirm, on the payment row
Payment_confirm(p, actor) ==
    [p EXCEPT !.status = "confirmed", !.approved_by = actor, !.approved_at = today]

\* models.py Payment.confirm, on the membership row: status = 'active'; save()
Membership_activate(m) == UserMembership_save([m EXCEPT !.status = "active"])

\* a confirmation that issues a PIN every time
NeedsPin_Always(u) == u \in Users

\* views.py confirm_payment: if not payment.user.kiosk_pin
NeedsPin(u) == users[u].kiosk_pin = None

confirm_payment(actor, payment_id) ==
    IF ~is_staff_or_admin(actor)
    THEN Respond("confirm_payment", actor, 0, "denied")
    ELSE IF ~PendingPaymentFound(payment_id)
    THEN Respond("confirm_payment", None, payment_id, "not_found")
    ELSE
        LET p == payments[payment_id]
            mid == p.membership
        IN  /\ Len(audit) + 1 <= MaxAudit
            /\ payments' = [payments EXCEPT ![payment_id] = Payment_confirm(p, actor)]
            /\ memberships' = [memberships EXCEPT
                                  ![mid] = Membership_activate(memberships[mid])]
            /\ IF NeedsPin(p.user)
               THEN \E pin \in FreePins :
                        users' = User_generate_kiosk_pin(users, p.user, pin)
               ELSE users' = users
            /\ audit' = AuditLog_log(audit, "payment_received", actor, "info")
            /\ last' = Request("confirm_payment", actor, payment_id, "confirmed")
            /\ UNCHANGED <<today, plans, walkin_payments, passes, pending_walkin, clock, inflight, attendance, analytics>>

\* ---------------------------------------------------------------- requests in flight
\* a request that has done its reads: who posts it, the user row it works
\* on, the PIN it has drawn or was given, the table row it has looked up
InFlight(op, actor, user, pin, row) ==
    [op |-> op, actor |-> actor, user |-> user, pin |-> pin, row |-> row]

\* the requests in flight without the k-th
Remove(seq, k) == [i \in 1..(Len(seq) - 1) |-> IF i < k THEN seq[i] ELSE seq[i + 1]]

\* a users table without the unique index on kiosk_pin
PinTaken_NoIndex(u, pin) == pin \notin Pins

\* models.py User.kiosk_pin unique=True: saving pin on u violates the index
PinTaken(u, pin) == \E v \in Users \ {u} : users[v].kiosk_pin = pin

\* confirm_payment up to the exists() test of generate_kiosk_pin: the payment
\* and the membership are saved, a PIN is drawn that no stored user has
confirm_payment_begin(actor, payment_id) ==
    /\ is_staff_or_admin(actor)
    /\ PendingPaymentFound(payment_id)
    /\ NeedsPin(payments[payment_id].user)
    /\ Len(inflight) < MaxInflight
    /\ LET p == payments[payment_id]
           mid == p.membership
       IN  /\ payments' = [payments EXCEPT ![payment_id] = Payment_confirm(p, actor)]
           /\ memberships' = [memberships EXCEPT
                                 ![mid] = Membership_activate(memberships[mid])]
           /\ \E pin \in FreePins :
                 inflight' = Append(inflight,
                     InFlight("confirm_payment", actor, p.user, pin, payment_id))
    /\ last' = Request("confirm_payment", actor, payment_id, "begun")
    /\ UNCHANGED <<today, clock, users, plans, passes, walkin_payments, pending_walkin,
                   attendance, analytics, audit>>

\* ... and from self.save() of generate_kiosk_pin to the end of the view
confirm_payment_finish(k) ==
    /\ k \in DOMAIN inflight
    /\ inflight[k].op = "confirm_payment"
    /\ inflight' = Remove(inflight, k)
    /\ UNCHANGED <<today, clock, plans, passes, memberships, payments, walkin_payments,
                   pending_walkin, attendance, analytics>>
    /\ LET r == inflight[k] IN
       IF PinTaken(r.user, r.pin)
       THEN /\ last' = Request("confirm_payment", r.actor, r.row, "IntegrityError")
            /\ UNCHANGED <<users, audit>>
       ELSE /\ Len(audit) + 1 <= MaxAudit
            /\ users' = User_generate_kiosk_pin(users, r.user, r.pin)
            /\ audit' = AuditLog_log(audit, "payment_received", r.actor, "info")
            /\ last' = Request("confirm_payment", r.actor, r.row, "confirmed")

\* ---------------------------------------------------------------- Django admin, sync_roles
\* admin.py UserAdmin.generate_pins_action with one selected user; the admin
\* site is open to users with every permission, the superusers
generate_pins_action(actor, u) ==
    IF ~users[actor].is_superuser
    THEN Respond("generate_pins_action", actor, 0, "denied")
    ELSE IF ~(users[u].role = "member" /\ users[u].kiosk_pin = None)
    THEN Respond("generate_pins_action", u, 0, "skipped")
    ELSE
        /\ \E pin \in FreePins : users' = User_generate_kiosk_pin(users, u, pin)
        /\ last' = Request("generate_pins_action", u, 0, "generated")
        /\ UNCHANGED <<today, clock, plans, passes, memberships, payments, walkin_payments,
                       pending_walkin, attendance, analytics, audit, inflight>>

\* admin.py UserAdmin.save_model: the change form of user u is saved with the
\* posted role, is_staff and is_superuser (kiosk_pin posted as stored); then
\* User.save
UserAdmin_save_model(actor, u, posted_role, staff, super) ==
    IF ~users[actor].is_superuser
    THEN Respond("UserAdmin_save_model", actor, 0, "denied")
    ELSE
        LET obj == [users[u] EXCEPT !.role = posted_role, !.is_staff = staff,
                                    !.is_superuser = super]
            role == IF obj.is_superuser THEN "admin"
                    ELSE IF obj.is_staff /\ obj.role = "member" THEN "staff"
                    ELSE obj.role
        IN  /\ users' = [users EXCEPT ![u] = User_save([obj EXCEPT !.role = role])]
            /\ last' = Request("UserAdmin_save_model", u, 0, "saved")
            /\ UNCHANGED <<today, clock, plans, passes, memberships, payments,
                           walkin_payments, pending_walkin, attendance, analytics,
                           audit, inflight>>

\* the place of a users row that has been deleted: it has no role, no flag
\* and no PIN, so every lookup and every role test fails for it
NoUser == [role |-> None, is_staff |-> FALSE, is_superuser |-> FALSE, kiosk_pin |-> None]

\* the rows that the CASCADE columns would delete with user u
\* (user_memberships.user, payments.user, attendance.user)
CascadeOf(u) ==
    \/ (\E i \in DOMAIN memberships : memberships[i].user = u)
    \/ (\E i \in DOMAIN payments : payments[i].user = u)
    \/ (\E i \in DOMAIN attendance : attendance[i].user = u)

\* SET_NULL on a column that names a user
SetNull(v, u) == IF v = u THEN None ELSE v

\* admin.py UserAdmin (delete view of ModelAdmin: obj.delete()) for a user
\* who owns no cascading rows; the SET_NULL columns that named the user are
\* emptied: archived_by, approved_by, audit_logs.user
UserAdmin_delete_model(actor, u) ==
    /\ users[actor].is_superuser
    /\ u # actor
    /\ users[u] # NoUser
    /\ ~CascadeOf(u)
    /\ users' = [users EXCEPT ![u] = NoUser]
    /\ plans' = [i \in DOMAIN plans |->
                    [plans[i] EXCEPT !.archived_by = SetNull(plans[i].archived_by, u)]]
    /\ passes' = [i \in DOMAIN passes |->
                    [passes[i] EXCEPT !.archived_by = SetNull(passes[i].archived_by, u)]]
    /\ payments' = [i \in DOMAIN payments |->
                    [payments[i] EXCEPT !.approved_by = SetNull(payments[i].approved_by, u)]]
    /\ audit' = [i \in DOMAIN audit |->
                    [audit[i] EXCEPT !.user = SetNull(audit[i].user, u)]]
    /\ last' = Request("UserAdmin_delete_model", actor, 0, "deleted")
    /\ UNCHANGED <<today, clock, memberships, walkin_payments, pending_walkin,
                   attendance, analytics, inflight>>

\* sync_roles.py Command.handle: two bulk updates
sync_roles ==
    /\ users' = [u \in Users |->
          IF users[u].is_superuser /\ users[u].role # "admin"
          THEN [users[u] EXCEPT !.role = "admin"]
          ELSE IF users[u].is_staff /\ ~users[u].is_superuser /\ users[u].role = "member"
          THEN [users[u] EXCEPT !.role = "staff"]
          ELSE users[u]]
    /\ last' = Request("sync_roles", None, 0, "ok")
    /\ UNCHANGED <<today, clock, plans, passes, memberships, payments, walkin_payments,
                   pending_walkin, attendance, analytics, audit, inflight>>

\* ---------------------------------------------------------------- reject_payment
\* a reject() that drops the reason
Payment_reject_NoReason(p, actor, reason) ==
    [p EXCEPT !.status = "rejected", !.approved_by = actor, !.approved_at = today]

\* models.py Payment.reject, on the payment row
Payment_reject(p, actor, reason) ==
    [p EXCEPT !.status = "rejected", !.approved_by = actor,
              !.approved_at = today, !.rejection_reason = reason]

\* models.py Payment.reject, on the membership row: status = 'cancelled'; save()
Membership_cancel_on_reject(m) == UserMembership_save([m EXCEPT !.status = "cancelled"])

reject_payment(actor, payment_id, reason) ==
    IF ~is_staff_or_admin(actor)
    THEN Respond("reject_payment", actor, 0, "denied")
    ELSE IF ~PendingPaymentFound(payment_id)
    THEN Respond("reject_payment", None, payment_id, "not_found")
    ELSE
        LET p == payments[payment_id]
            mid == p.membership
        IN  /\ Len(audit) + 1 <= MaxAudit
            /\ payments' = [payments EXCEPT
                               ![payment_id] = Payment_reject(p, actor, reason)]
            /\ memberships' = [memberships EXCEPT
                                  ![mid] = Membership_cancel_on_reject(memberships[mid])]
            /\ audit' = AuditLog_log(audit, "payment_refunded", actor, "warning")
            /\ last' = Request("reject_payment", actor, payment_id, "rejected")
            /\ UNCHANGED <<today, users, plans, walkin_payments, passes, pending_walkin, clock, inflight, attendance, analytics>>

\* ---------------------------------------------------------------- cancel_membership
\* views.py cancel_membership: request.user != membership.user and not is_admin()
MayCancel(actor, m) == actor = m.user \/ is_admin(actor)

\* views.py cancel_membership line 1036 calls membership.cancel(user=, reason=);
\* class UserMembership (models.py 196-243) defines save, is_active and
\* days_remaining only, so the call raises AttributeError before any write.
cancel_membership(actor, membership_id) ==
    IF membership_id \notin DOMAIN memberships
    THEN Respond("cancel_membership", None, membership_id, "not_found")
    ELSE IF ~MayCancel(actor, memberships[membership_id])
    THEN Respond("cancel_membership", None, membership_id, "denied")
    ELSE IF memberships[membership_id].status # "active"
    THEN Respond("cancel_membership", None, membership_id, "not_active")
    ELSE /\ last' = Request("cancel_membership", actor, membership_id, "AttributeError")
         /\ UNCHANGED <<today, users, plans, memberships, payments, walkin_payments, passes, pending_walkin, clock, inflight, attendance,
                   analytics, audit>>

\* ---------------------------------------------------------------- walk-in sale
\* get_object_or_404(FlexibleAccess, id=pass_id, is_active=True)
PassFound(pass_id) ==
    /\ pass_id \in DOMAIN passes
    /\ ~passes[pass_id].deleted
    /\ passes[pass_id].is_active

\* WalkInPayment.generate_reference_number: format WLK-YYYYMMDD-XXXXXX
WalkInReference(day, suffix) == <<"WLK", day, suffix>>

\* a generator that returns its first draw without looking at the table
FreshWalkInSuffixes_Unchecked == Suffixes

\* ... candidates not stored on any walk-in payment
FreshWalkInSuffixes ==
    {s \in Suffixes :
        \A i \in DOMAIN walkin_payments :
            walkin_payments[i].reference_no # WalkInReference(today, s)}

\* views.py walkin_purchase: the sale is parked in the session
walkin_purchase(actor, pass_id, reference_no) ==
    IF ~is_staff_or_admin(actor)
    THEN Respond("walkin_purchase", actor, 0, "denied")
    ELSE IF ~PassFound(pass_id)
    THEN Respond("walkin_purchase", None, pass_id, "not_found")
    ELSE
        /\ pending_walkin' = [pending_walkin EXCEPT
              ![actor] = <<[pass_id |-> pass_id, reference_no |-> reference_no]>>]
        /\ last' = Request("walkin_purchase", actor, pass_id, "pending")
        /\ UNCHANGED <<today, clock, users, plans, passes, memberships, payments,
                       walkin_payments, attendance, analytics, audit, inflight>>

\* views.py walkin_confirm; WalkInPayment.save generates the reference when
\* the posted one is empty; reference_no is unique=True, so a posted reference
\* that is already stored makes create() raise IntegrityError
walkin_confirm(actor, action) ==
    IF ~is_staff_or_admin(actor)
    THEN Respond("walkin_confirm", actor, 0, "denied")
    ELSE IF pending_walkin[actor] = <<>>
    THEN Respond("walkin_confirm", actor, 0, "no_pending")
    ELSE IF action # "confirm"
    THEN /\ pending_walkin' = [pending_walkin EXCEPT ![actor] = <<>>]
         /\ last' = Request("walkin_confirm", actor, 0, "cancelled")
         /\ UNCHANGED <<today, clock, users, plans, passes, memberships, payments,
                        walkin_payments, attendance, analytics, audit, inflight>>
    ELSE
        LET pending == pending_walkin[actor][1] IN
        IF ~PassFound(pending.pass_id)
        THEN Respond("walkin_confirm", None, pending.pass_id, "not_found")
        ELSE IF /\ pending.reference_no # <<>>
                /\ \E i \in DOMAIN walkin_payments :
                      walkin_payments[i].reference_no = pending.reference_no
        THEN Respond("walkin_confirm", actor, pending.pass_id, "IntegrityError")
        ELSE
            /\ Len(walkin_payments) < MaxWalkIns
            /\ Len(audit) + 1 <= MaxAudit
            /\ \E reference \in
                     IF pending.reference_no = <<>>
                     THEN {WalkInReference(today, s) : s \in FreshWalkInSuffixes}
                     ELSE {pending.reference_no} :
                  walkin_payments' = Append(walkin_payments,
                      [pass_type |-> pending.pass_id,
                       amount |-> passes[pending.pass_id].price,
                       payment_date |-> today,
                       reference_no |-> reference,
                       processed_by |-> None])
            /\ audit' = AuditLog_log(audit, "walkin_sale", actor, "info")
            /\ pending_walkin' = [pending_walkin EXCEPT ![actor] = <<>>]
            /\ last' = Request("walkin_confirm", actor, Len(walkin_payments) + 1, "sold")
            /\ UNCHANGED <<today, clock, users, plans, passes, memberships, payments,
                           attendance, analytics, inflight>>

\* ---------------------------------------------------------------- expire_memberships
\* an off-by-one expiry job: memberships ending today are expired too
ToExpire_Inclusive ==
    {i \in DOMAIN memberships :
        memberships[i].status = "active" /\ memberships[i].end_date <= today}

\* expire_memberships.py: filter(status='active', end_date__lt=today)
ToExpire ==
    {i \in DOMAIN memberships :
        memberships[i].status = "active" /\ memberships[i].end_date < today}

\* the bulk update(status='expired') writes the column without calling save()
Expired(ms) ==
    [i \in DOMAIN ms |->
        IF i \in ToExpire THEN [ms[i] EXCEPT !.status = "expired"] ELSE ms[i]]

\* ---------------------------------------------------------------- Analytics
RECURSIVE SumAmounts(_, _)
\* aggregate(total=Sum('amount')) over the rows with payment_date__date = day
SumAmounts(rows, day) ==
    IF rows = <<>> THEN 0
    ELSE (IF Head(rows).payment_date = day THEN Head(rows).amount ELSE 0)
         + SumAmounts(Tail(rows), day)

\* a report whose sales leave out the walk-in sales
DailyReport_MemberSalesOnly(ms, target_date) ==
    [total_members |->
        Cardinality({i \in DOMAIN ms :
            /\ ms[i].status = "active"
            /\ ms[i].start_date <= target_date
            /\ ms[i].end_date >= target_date}),
     total_passes |->
        Cardinality({i \in DOMAIN walkin_payments :
            walkin_payments[i].payment_date = target_date}),
     total_sales |-> SumAmounts(payments, target_date)]

\* models.py Analytics.generate_daily_report: the row computed for target_date
\* from the memberships ms
DailyReport(ms, target_date) ==
    [total_members |->
        Cardinality({i \in DOMAIN ms :
            /\ ms[i].status = "active"
            /\ ms[i].start_date <= target_date
            /\ ms[i].end_date >= target_date}),
     total_passes |->
        Cardinality({i \in DOMAIN walkin_payments :
            walkin_payments[i].payment_date = target_date}),
     total_sales |-> SumAmounts(payments, target_date)
                     + SumAmounts(walkin_payments, target_date)]

\* a row of table analytics
Snapshot(target_date, row) ==
    [date |-> target_date, total_members |-> row.total_members,
     total_passes |-> row.total_passes, total_sales |-> row.total_sales]

\* a create() for every run, found or not
Analytics_upsert_AlwaysCreate(table, target_date, row) ==
    Append(table, Snapshot(target_date, row))

\* update_or_create(date=target_date, defaults=...): the row of that date
\* is updated, or a row is created when there is none
Analytics_upsert(table, target_date, row) ==
    IF \E i \in DOMAIN table : table[i].date = target_date
    THEN [i \in DOMAIN table |->
            IF table[i].date = target_date THEN Snapshot(target_date, row) ELSE table[i]]
    ELSE Append(table, Snapshot(target_date, row))

\* expire_memberships.py Command.handle
expire_memberships ==
    /\ memberships' = Expired(memberships)
    /\ analytics' = Analytics_upsert(analytics, today,
                                     DailyReport(Expired(memberships), today))
    /\ last' = Request("expire_memberships", None, Cardinality(ToExpire), "ok")
    /\ UNCHANGED <<today, users, plans, payments, walkin_payments, passes, pending_walkin, clock, inflight, attendance, audit>>

\* views.py reports_view: Analytics.generate_daily_report() for today
reports_view(actor) ==
    IF ~is_admin(actor)
    THEN Respond("reports_view", actor, 0, "denied")
    ELSE
        /\ analytics' = Analytics_upsert(analytics, today, DailyReport(memberships, today))
        /\ last' = Request("reports_view", actor, 0, "ok")
        /\ UNCHANGED <<today, clock, users, plans, passes, memberships, payments, walkin_payments, pending_walkin, inflight, attendance, audit>>

\* views.py audit_trail_view: the page is read-only; a caller who is not
\* admin is logged and sent away
audit_trail_view(actor) ==
    IF ~is_admin(actor)
    THEN /\ Len(audit) + 1 <= MaxAudit
         /\ audit' = AuditLog_log(audit, "unauthorized_access", actor, "warning")
         /\ last' = Request("audit_trail_view", actor, 0, "denied")
         /\ UNCHANGED <<today, clock, users, plans, passes, memberships, payments, walkin_payments, pending_walkin, inflight, attendance, analytics>>
    ELSE Respond("audit_trail_view", actor, 0, "ok")

\* ---------------------------------------------------------------- manage_plans_view
\* get_object_or_404(MembershipPlan, id=plan_id)
PlanExists(plan_id) == plan_id \in DOMAIN plans /\ ~plans[plan_id].deleted

\* on_delete=models.PROTECT on UserMembership.plan
PlanReferenced(plan_id) ==
    \E i \in DOMAIN memberships : memberships[i].plan = plan_id

\* action == 'add', plan_type == 'membership'
manage_plans_add(actor, duration, price) ==
    IF ~is_staff_or_admin(actor)
    THEN Respond("manage_plans_add", actor, 0, "denied")
    ELSE
        /\ Len(plans) < MaxPlans
        /\ Len(audit) + 1 <= MaxAudit
        /\ plans' = Append(plans, Plan(duration, price))
        /\ audit' = AuditLog_log(audit, "plan_created", actor, "info")
        /\ last' = Request("manage_plans_add", actor, Len(plans) + 1, "created")
        /\ UNCHANGED <<today, users, memberships, payments, walkin_payments, passes, pending_walkin, clock, inflight, attendance, analytics>>

\* action == 'edit', plan_type == 'membership'
manage_plans_edit(actor, plan_id, duration, price) ==
    IF ~is_staff_or_admin(actor)
    THEN Respond("manage_plans_edit", actor, 0, "denied")
    ELSE IF ~PlanExists(plan_id)
    THEN Respond("manage_plans_edit", None, plan_id, "not_found")
    ELSE
        /\ Len(audit) + 1 <= MaxAudit
        /\ plans' = [plans EXCEPT ![plan_id].duration_days = duration,
                                  ![plan_id].price = price]
        /\ audit' = AuditLog_log(audit, "plan_updated", actor, "info")
        /\ last' = Request("manage_plans_edit", actor, plan_id, "updated")
        /\ UNCHANGED <<today, users, memberships, payments, walkin_payments, passes, pending_walkin, clock, inflight, attendance, analytics>>

\* action == 'toggle', plan_type == 'membership'
manage_plans_toggle(actor, plan_id) ==
    IF ~is_staff_or_admin(actor)
    THEN Respond("manage_plans_toggle", actor, 0, "denied")
    ELSE IF ~PlanExists(plan_id)
    THEN Respond("manage_plans_toggle", None, plan_id, "not_found")
    ELSE
        /\ Len(audit) + 1 <= MaxAudit
        /\ plans' = [plans EXCEPT ![plan_id].is_active = ~plans[plan_id].is_active]
        /\ audit' = AuditLog_log(audit, "plan_updated", actor, "info")
        /\ last' = Request("manage_plans_toggle", actor, plan_id, "updated")
        /\ UNCHANGED <<today, users, memberships, payments, walkin_payments, passes, pending_walkin, clock, inflight, attendance, analytics>>

\* action == 'delete', plan_type == 'membership'; a referenced plan makes
\* plan.delete() raise ProtectedError before anything is written
manage_plans_delete(actor, plan_id) ==
    IF ~is_staff_or_admin(actor)
    THEN Respond("manage_plans_delete", actor, 0, "denied")
    ELSE IF ~is_admin(actor)
    THEN Respond("manage_plans_delete", actor, 0, "admin_only")
    ELSE IF ~PlanExists(plan_id)
    THEN Respond("manage_plans_delete", None, plan_id, "not_found")
    ELSE IF PlanReferenced(plan_id)
    THEN Respond("manage_plans_delete", None, plan_id, "ProtectedError")
    ELSE
        /\ Len(audit) + 1 <= MaxAudit
        /\ plans' = [plans EXCEPT ![plan_id].deleted = TRUE]
        /\ audit' = AuditLog_log(audit, "plan_deleted", actor, "warning")
        /\ last' = Request("manage_plans_delete", actor, plan_id, "deleted")
        /\ UNCHANGED <<today, users, memberships, payments, walkin_payments, passes, pending_walkin, clock, inflight, attendance, analytics>>

\* ---------------------------------------------------------------- archive / restore
\* models.py MembershipPlan.archive
MembershipPlan_archive(pl, user) ==
    [pl EXCEPT !.is_archived = TRUE, !.is_active = FALSE,
               !.archived_at = today, !.archived_by = user]

\* models.py MembershipPlan.restore
MembershipPlan_restore(pl) ==
    [pl EXCEPT !.is_archived = FALSE, !.is_active = TRUE,
               !.archived_at = NoDate, !.archived_by = None]

archive_membership_plan(actor, plan_id) ==
    IF ~is_admin(actor)
    THEN Respond("archive_membership_plan", actor, 0, "denied")
    ELSE IF ~PlanExists(plan_id)
    THEN Respond("archive_membership_plan", None, plan_id, "not_found")
    ELSE
        /\ Len(audit) + 1 <= MaxAudit
        /\ plans' = [plans EXCEPT ![plan_id] = MembershipPlan_archive(plans[plan_id], actor)]
        /\ audit' = AuditLog_log(audit, "plan_updated", actor, "info")
        /\ last' = Request("archive_membership_plan", actor, plan_id, "archived")
        /\ UNCHANGED <<today, users, memberships, payments, walkin_payments, passes, pending_walkin, clock, inflight, attendance, analytics>>

\* get_object_or_404(MembershipPlan, id=plan_id, is_archived=True)
ArchivedPlanFound(plan_id) == PlanExists(plan_id) /\ plans[plan_id].is_archived

restore_membership_plan(actor, plan_id) ==
    IF ~is_admin(actor)
    THEN Respond("restore_membership_plan", actor, 0, "denied")
    ELSE IF ~ArchivedPlanFound(plan_id)
    THEN Respond("restore_membership_plan", None, plan_id, "not_found")
    ELSE
        /\ Len(audit) + 1 <= MaxAudit
        /\ plans' = [plans EXCEPT ![plan_id] = MembershipPlan_restore(plans[plan_id])]
        /\ audit' = AuditLog_log(audit, "plan_updated", actor, "info")
        /\ last' = Request("restore_membership_plan", actor, plan_id, "restored")
        /\ UNCHANGED <<today, users, memberships, payments, walkin_payments, passes, pending_walkin, clock, inflight, attendance, analytics>>

\* ---------------------------------------------------------------- walk-in passes of the catalogue
\* get_object_or_404(FlexibleAccess, id=plan_id)
PassExists(pass_id) == pass_id \in DOMAIN passes /\ ~passes[pass_id].deleted

\* action == 'add', plan_type other than 'membership'
manage_plans_add_pass(actor, duration, price) ==
    IF ~is_staff_or_admin(actor)
    THEN Respond("manage_plans_add_pass", actor, 0, "denied")
    ELSE
        /\ Len(passes) < MaxPlans
        /\ Len(audit) + 1 <= MaxAudit
        /\ passes' = Append(passes, Plan(duration, price))
        /\ audit' = AuditLog_log(audit, "plan_created", actor, "info")
        /\ last' = Request("manage_plans_add_pass", actor, Len(passes) + 1, "created")
        /\ UNCHANGED <<today, users, memberships, payments, walkin_payments, plans, pending_walkin, clock, inflight, attendance, analytics>>

\* action == 'edit', plan_type other than 'membership'
manage_plans_edit_pass(actor, pass_id, duration, price) ==
    IF ~is_staff_or_admin(actor)
    THEN Respond("manage_plans_edit_pass", actor, 0, "denied")
    ELSE IF ~PassExists(pass_id)
    THEN Respond("manage_plans_edit_pass", None, pass_id, "not_found")
    ELSE
        /\ Len(audit) + 1 <= MaxAudit
        /\ passes' = [passes EXCEPT ![pass_id].duration_days = duration,
                                    ![pass_id].price = price]
        /\ audit' = AuditLog_log(audit, "plan_updated", actor, "info")
        /\ last' = Request("manage_plans_edit_pass", actor, pass_id, "updated")
        /\ UNCHANGED <<today, users, memberships, payments, walkin_payments, plans, pending_walkin, clock, inflight, attendance, analytics>>

\* action == 'toggle', plan_type other than 'membership'
manage_plans_toggle_pass(actor, pass_id) ==
    IF ~is_staff_or_admin(actor)
    THEN Respond("manage_plans_toggle_pass", actor, 0, "denied")
    ELSE IF ~PassExists(pass_id)
    THEN Respond("manage_plans_toggle_pass", None, pass_id, "not_found")
    ELSE
        /\ Len(audit) + 1 <= MaxAudit
        /\ passes' = [passes EXCEPT ![pass_id].is_active = ~passes[pass_id].is_active]
        /\ audit' = AuditLog_log(audit, "plan_updated", actor, "info")
        /\ last' = Request("manage_plans_toggle_pass", actor, pass_id, "updated")
        /\ UNCHANGED <<today, users, memberships, payments, walkin_payments, plans, pending_walkin, clock, inflight, attendance, analytics>>

\* a pass_type column that does not protect the pass
PassReferenced_Unprotected(pass_id) == FALSE

\* on_delete=models.PROTECT on WalkInPayment.pass_type
PassReferenced(pass_id) ==
    \E i \in DOMAIN walkin_payments : walkin_payments[i].pass_type = pass_id

\* action == 'delete', plan_type other than 'membership'; a referenced pass
\* makes pass_obj.delete() raise ProtectedError before anything is written
manage_plans_delete_pass(actor, pass_id) ==
    IF ~is_staff_or_admin(actor)
    THEN Respond("manage_plans_delete_pass", actor, 0, "denied")
    ELSE IF ~is_admin(actor)
    THEN Respond("manage_plans_delete_pass", actor, 0, "admin_only")
    ELSE IF ~PassExists(pass_id)
    THEN Respond("manage_plans_delete_pass", None, pass_id, "not_found")
    ELSE IF PassReferenced(pass_id)
    THEN Respond("manage_plans_delete_pass", None, pass_id, "ProtectedError")
    ELSE
        /\ Len(audit) + 1 <= MaxAudit
        /\ passes' = [passes EXCEPT ![pass_id].deleted = TRUE]
        /\ audit' = AuditLog_log(audit, "plan_deleted", actor, "warning")
        /\ last' = Request("manage_plans_delete_pass", actor, pass_id, "deleted")
        /\ UNCHANGED <<today, users, memberships, payments, walkin_payments, plans, pending_walkin, clock, inflight, attendance, analytics>>

\* models.py FlexibleAccess.archive
FlexibleAccess_archive(pl, user) ==
    [pl EXCEPT !.is_archived = TRUE, !.is_active = FALSE,
               !.archived_at = today, !.archived_by = user]

\* a restore() that forgets who archived the pass
FlexibleAccess_restore_KeepsActor(pl) ==
    [pl EXCEPT !.is_archived = FALSE, !.is_active = TRUE,
               !.archived_at = NoDate]

\* models.py FlexibleAccess.restore
FlexibleAccess_restore(pl) ==
    [pl EXCEPT !.is_archived = FALSE, !.is_active = TRUE,
               !.archived_at = NoDate, !.archived_by = None]

archive_walkin_plan(actor, pass_id) ==
    IF ~is_admin(actor)
    THEN Respond("archive_walkin_plan", actor, 0, "denied")
    ELSE IF ~PassExists(pass_id)
    THEN Respond("archive_walkin_plan", None, pass_id, "not_found")
    ELSE
        /\ Len(audit) + 1 <= MaxAudit
        /\ passes' = [passes EXCEPT ![pass_id] = FlexibleAccess_archive(passes[pass_id], actor)]
        /\ audit' = AuditLog_log(audit, "plan_updated", actor, "info")
        /\ last' = Request("archive_walkin_plan", actor, pass_id, "archived")
        /\ UNCHANGED <<today, users, memberships, payments, walkin_payments, plans, pending_walkin, clock, inflight, attendance, analytics>>

\* get_object_or_404(FlexibleAccess, id=plan_id, is_archived=True)
ArchivedPassFound(pass_id) == PassExists(pass_id) /\ passes[pass_id].is_archived

restore_walkin_plan(actor, pass_id) ==
    IF ~is_admin(actor)
    THEN Respond("restore_walkin_plan", actor, 0, "denied")
    ELSE IF ~ArchivedPassFound(pass_id)
    THEN Respond("restore_walkin_plan", None, pass_id, "not_found")
    ELSE
        /\ Len(audit) + 1 <= MaxAudit
        /\ passes' = [passes EXCEPT ![pass_id] = FlexibleAccess_restore(passes[pass_id])]
        /\ audit' = AuditLog_log(audit, "plan_updated", actor, "info")
        /\ last' = Request("restore_walkin_plan", actor, pass_id, "restored")
        /\ UNCHANGED <<today, users, memberships, payments, walkin_payments, plans, pending_walkin, clock, inflight, attendance, analytics>>

\* ---------------------------------------------------------------- kiosk_login
\* views.py kiosk_login: not kiosk_pin or len(kiosk_pin) != 6 or not isdigit()
PinFormatOk(pin) == pin \in SixDigit

\* a kiosk lookup that forgets the role
KioskUsers_AnyRole(pin) == {u \in Users : users[u].kiosk_pin = pin}

\* User.objects.get(kiosk_pin=kiosk_pin, role='member')
KioskUsers(pin) ==
    {u \in Users : users[u].kiosk_pin = pin /\ users[u].role = "member"}

\* Attendance.objects.filter(user=user, check_out__isnull=True).first()
\* under Meta.ordering ['-check_in']; the rows first() can return
current_checkin(u) ==
    LET open == {i \in DOMAIN attendance :
                    attendance[i].user = u /\ attendance[i].check_out = NoDate}
    IN  {i \in open : \A j \in open : attendance[j].check_in <= attendance[i].check_in}

\* timezone.now(), in seconds
Now == today * 86400 + clock

\* int(x / d): the quotient rounded towards zero
Trunc(x, d) == IF x >= 0 THEN x \div d ELSE -((-x) \div d)

\* models.py Attendance.save:
\* if check_out and check_in: duration_minutes = int(delta.total_seconds() / 60)
Attendance_save(a) ==
    IF a.check_out # NoDate /\ a.check_in # NoDate
    THEN [a EXCEPT !.duration_minutes = Trunc(a.check_out - a.check_in, 60)]
    ELSE a

kiosk_login(pin) ==
    /\ Len(audit) + 1 <= MaxAudit
    /\ UNCHANGED <<today, users, plans, memberships, payments, walkin_payments, passes, pending_walkin, clock, inflight, analytics>>
    /\ IF ~PinFormatOk(pin)
       THEN /\ audit' = AuditLog_log(audit, "login_failed", None, "warning")
            /\ last' = Request("kiosk_login", None, 0, "invalid_format")
            /\ UNCHANGED attendance
       ELSE IF KioskUsers(pin) = {}
       THEN /\ audit' = AuditLog_log(audit, "login_failed", None, "warning")
            /\ last' = Request("kiosk_login", None, 0, "invalid_pin")
            /\ UNCHANGED attendance
       ELSE \E u \in KioskUsers(pin) :
            IF kiosk_memberships(u) = {}
            THEN /\ audit' = AuditLog_log(audit, "permission_denied", u, "warning")
                 /\ last' = Request("kiosk_login", u, 0, "no_membership")
                 /\ UNCHANGED attendance
            ELSE IF current_checkin(u) # {}
            THEN \E i \in current_checkin(u) :
                 /\ attendance' = [attendance EXCEPT
                        ![i] = Attendance_save([attendance[i] EXCEPT !.check_out = Now])]
                 /\ audit' = AuditLog_log(audit, "user_updated", u, "info")
                 /\ last' = Request("kiosk_login", u, i, "checkout")
            ELSE /\ Len(attendance) < MaxAttendance
                 /\ attendance' = Append(attendance,
                        Attendance_save([user |-> u, check_in |-> Now,
                                         check_out |-> NoDate,
                                         duration_minutes |-> NoDate]))
                 /\ audit' = AuditLog_log(audit, "user_updated", u, "info")
                 /\ last' = Request("kiosk_login", u, Len(attendance) + 1, "checkin")

\* ---------------------------------------------------------------- the generator loops
\* a call of a generator that is inside its "while True" loop: the candidate
\* drawn (None before a draw) and whether a candidate was thrown away before
Generator(op, user, row, candidate, retried) ==
    [op |-> op, user |-> user, row |-> row, candidate |-> candidate,
     retried |-> retried]

\* an exists() test that never finds the candidate
PinStored_Never(pin) == FALSE

\* User.objects.filter(kiosk_pin=pin).exists()
PinStored(pin) == \E u \in Users : users[u].kiosk_pin = pin

\* Payment.objects.filter(reference_no=reference).exists()
ReferenceStored(reference) ==
    \E i \in DOMAIN payments : payments[i].reference_no = reference

\* admin.py generate_pins_action for member u, up to the loop of
\* User.generate_kiosk_pin
generate_kiosk_pin_call(u) ==
    /\ users[u].role = "member"
    /\ NeedsPin(u)
    /\ Len(inflight) < MaxInflight
    /\ inflight' = Append(inflight, Generator("generate_kiosk_pin", u, 0, None, FALSE))
    /\ last' = Request("generate_kiosk_pin", u, 0, "called")
    /\ UNCHANGED <<today, clock, users, plans, passes, memberships, payments,
                   walkin_payments, pending_walkin, attendance, analytics, audit>>

\* pin = ''.join([str(random.randint(0, 9)) for _ in range(6)])
generate_kiosk_pin_draw(k, pin) ==
    /\ k \in DOMAIN inflight
    /\ inflight[k].op = "generate_kiosk_pin"
    /\ inflight[k].candidate = None
    /\ inflight' = [inflight EXCEPT ![k].candidate = pin]
    /\ last' = Request("generate_kiosk_pin", inflight[k].user, 0, "drawn")
    /\ UNCHANGED <<today, clock, users, plans, passes, memberships, payments,
                   walkin_payments, pending_walkin, attendance, analytics, audit>>

\* if not User.objects.filter(kiosk_pin=pin).exists(): save and return;
\* otherwise go round the loop
generate_kiosk_pin_check(k) ==
    /\ k \in DOMAIN inflight
    /\ inflight[k].op = "generate_kiosk_pin"
    /\ inflight[k].candidate # None
    /\ LET g == inflight[k] IN
       IF PinStored(g.candidate)
       THEN /\ inflight' = [inflight EXCEPT ![k].candidate = None, ![k].retried = TRUE]
            /\ last' = Request("generate_kiosk_pin", g.user, 0, "retry")
            /\ UNCHANGED users
       ELSE /\ users' = User_generate_kiosk_pin(users, g.user, g.candidate)
            /\ inflight' = Remove(inflight, k)
            /\ last' = Request("generate_kiosk_pin", g.user,
                               IF g.retried THEN 1 ELSE 0, "returned")
    /\ UNCHANGED <<today, clock, plans, passes, memberships, payments,
                   walkin_payments, pending_walkin, attendance, analytics, audit>>

\* subscribe_plan up to the loop of Payment.generate_reference_number: the
\* membership is created, Payment.objects.create has entered Payment.save
subscribe_plan_call(u, plan_id) ==
    /\ users[u].role = "member"
    /\ PlanFound(plan_id)
    /\ ActiveMemberships(u) = {}
    /\ Len(memberships) < MaxMemberships
    /\ Len(audit) + 2 <= MaxAudit
    /\ Len(inflight) < MaxInflight
    /\ memberships' = Append(memberships, UserMembership_save(
           [user |-> u, plan |-> plan_id, start_date |-> today,
            end_date |-> NoDate, status |-> NewMembershipStatus]))
    /\ inflight' = Append(inflight,
           Generator("generate_reference_number", u, Len(memberships) + 1, None, FALSE))
    /\ last' = Request("generate_reference_number", u, 0, "called")
    /\ UNCHANGED <<today, clock, users, plans, passes, payments,
                   walkin_payments, pending_walkin, attendance, analytics, audit>>

\* random_part = ''.join([str(random.randint(0, 9)) for _ in range(6)])
generate_reference_number_draw(k, suffix) ==
    /\ k \in DOMAIN inflight
    /\ inflight[k].op = "generate_reference_number"
    /\ inflight[k].candidate = None
    /\ inflight' = [inflight EXCEPT ![k].candidate = suffix]
    /\ last' = Request("generate_reference_number", inflight[k].user, 0, "drawn")
    /\ UNCHANGED <<today, clock, users, plans, passes, memberships, payments,
                   walkin_payments, pending_walkin, attendance, analytics, audit>>

\* if not Payment.objects.filter(reference_no=reference).exists(): return,
\* and the rest of subscribe_plan stores the payment and logs; otherwise go
\* round the loop
generate_reference_number_check(k) ==
    /\ k \in DOMAIN inflight
    /\ inflight[k].op = "generate_reference_number"
    /\ inflight[k].candidate # None
    /\ LET g == inflight[k]
           reference == Reference(today, g.candidate)
       IN
       IF ReferenceStored(reference)
       THEN /\ inflight' = [inflight EXCEPT ![k].candidate = None, ![k].retried = TRUE]
            /\ last' = Request("generate_reference_number", g.user, 0, "retry")
            /\ UNCHANGED <<payments, audit>>
       ELSE /\ payments' = Append(payments,
                   [user |-> g.user, membership |-> g.row,
                    amount |-> plans[memberships[g.row].plan].price,
                    payment_date |-> today,
                    reference_no |-> reference,
                    status |-> "pending",
                    approved_by |-> None, approved_at |-> NoDate,
                    rejection_reason |-> None])
            /\ audit' = AuditLog_log(
                           AuditLog_log(audit, "membership_created", g.user, "info"),
                           "payment_received", g.user, "info")
            /\ inflight' = Remove(inflight, k)
            /\ last' = Request("generate_reference_number", g.user,
                               IF g.retried THEN 1 ELSE 0, "returned")
    /\ UNCHANGED <<today, clock, users, plans, passes, memberships,
                   walkin_payments, pending_walkin, attendance, analytics>>

\* confirm_payment or reject_payment up to get_object_or_404(Payment,
\* id=payment_id, status='pending'): the request holds the row it loaded
payment_decision_load(op, actor, payment_id) ==
    /\ is_staff_or_admin(actor)
    /\ PendingPaymentFound(payment_id)
    /\ Len(inflight) < MaxInflight
    /\ inflight' = Append(inflight,
           InFlight(op, actor, payments[payment_id].user, "load", payment_id))
    /\ last' = Request(op, actor, payment_id, "loaded")
    /\ UNCHANGED <<today, clock, users, plans, passes, memberships, payments,
                   walkin_payments, pending_walkin, attendance, analytics, audit>>

\* Payment.confirm / Payment.reject up to self.save(): the loaded row is
\* written back whole with the new status, approver and time
payment_decision_save(k) ==
    /\ k \in DOMAIN inflight
    /\ inflight[k].op \in {"confirm_payment", "reject_payment"}
    /\ inflight[k].pin = "load"
    /\ LET r == inflight[k]
           loaded == [payments[r.row] EXCEPT !.status = "pending",
                          !.approved_by = None, !.approved_at = NoDate,
                          !.rejection_reason = None]
       IN  /\ IF r.op = "confirm_payment"
              THEN payments' = [payments EXCEPT ![r.row] = Payment_confirm(loaded, r.actor)]
              ELSE \E reason \in Reasons :
                     payments' = [payments EXCEPT
                                     ![r.row] = Payment_reject(loaded, r.actor, reason)]
           /\ inflight' = [inflight EXCEPT ![k].pin = "saved"]
           /\ last' = Request(r.op, r.actor, r.row, "saved")
    /\ UNCHANGED <<today, clock, users, plans, passes, memberships,
                   walkin_payments, pending_walkin, attendance, analytics, audit>>

\* ... and from self.membership to the end of the view: the membership is
\* read, given its status and saved; confirm may issue a PIN; the audit
\* entry is written
payment_decision_finish(k) ==
    /\ k \in DOMAIN inflight
    /\ inflight[k].op \in {"confirm_payment", "reject_payment"}
    /\ inflight[k].pin = "saved"
    /\ Len(audit) + 1 <= MaxAudit
    /\ inflight' = Remove(inflight, k)
    /\ LET r == inflight[k]
           mid == payments[r.row].membership
       IN  IF r.op = "confirm_payment"
           THEN /\ memberships' = [memberships EXCEPT
                                      ![mid] = Membership_activate(memberships[mid])]
                /\ IF NeedsPin(r.user)
                   THEN \E pin \in FreePins :
                            users' = User_generate_kiosk_pin(users, r.user, pin)
                   ELSE users' = users
                /\ audit' = AuditLog_log(audit, "payment_received", r.actor, "info")
                /\ last' = Request("confirm_payment", r.actor, r.row, "confirmed")
           ELSE /\ memberships' = [memberships EXCEPT
                                      ![mid] = Membership_cancel_on_reject(memberships[mid])]
                /\ users' = users
                /\ audit' = AuditLog_log(audit, "payment_refunded", r.actor, "warning")
                /\ last' = Request("reject_payment", r.actor, r.row, "rejected")
    /\ UNCHANGED <<today, clock, plans, passes, payments, walkin_payments,
                   pending_walkin, attendance, analytics>>

\* kiosk_login of an admitted member up to the query for the open record:
\* nothing is written yet, the request holds the row it read (0: none)
kiosk_login_begin(pin) ==
    /\ PinFormatOk(pin)
    /\ Len(inflight) < MaxInflight
    /\ \E u \in KioskUsers(pin) :
          /\ kiosk_memberships(u) # {}
          /\ \E row \in (IF current_checkin(u) = {} THEN {0} ELSE current_checkin(u)) :
                inflight' = Append(inflight, InFlight("kiosk_login", None, u, pin, row))
          /\ last' = Request("kiosk_login", u, 0, "begun")
    /\ UNCHANGED <<today, clock, users, plans, passes, memberships, payments,
                   walkin_payments, pending_walkin, attendance, analytics, audit>>

\* ... and from there to the redirect: the row that was read is closed and
\* saved, or a new one is created
kiosk_login_finish(k) ==
    /\ k \in DOMAIN inflight
    /\ inflight[k].op = "kiosk_login"
    /\ Len(audit) + 1 <= MaxAudit
    /\ inflight' = Remove(inflight, k)
    /\ UNCHANGED <<today, clock, users, plans, passes, memberships, payments,
                   walkin_payments, pending_walkin, analytics>>
    /\ LET r == inflight[k] IN
       IF r.row # 0
       THEN /\ attendance' = [attendance EXCEPT
                   ![r.row] = Attendance_save([attendance[r.row] EXCEPT !.check_out = Now])]
            /\ audit' = AuditLog_log(audit, "user_updated", r.user, "info")
            /\ last' = Request("kiosk_login", r.user, r.row, "checkout")
       ELSE /\ Len(attendance) < MaxAttendance
            /\ attendance' = Append(attendance,
                   Attendance_save([user |-> r.user, check_in |-> Now,
                                    check_out |-> NoDate,
                                    duration_minutes |-> NoDate]))
            /\ audit' = AuditLog_log(audit, "user_updated", r.user, "info")
            /\ last' = Request("kiosk_login", r.user, Len(attendance) + 1, "checkin")

\* what the admin change form of an attendance record can hold in check_out:
\* left empty, or a time
CheckOutInputs == {NoDate, 0}

\* admin.py AttendanceAdmin: the change form of a record, where check_out is
\* the editable time field (check_in and duration_minutes are read-only);
\* ModelAdmin.save_model calls obj.save()
AttendanceAdmin_change(actor, i, check_out) ==
    /\ users[actor].is_superuser
    /\ i \in DOMAIN attendance
    /\ attendance' = [attendance EXCEPT
           ![i] = Attendance_save([attendance[i] EXCEPT !.check_out = check_out])]
    /\ last' = Request("AttendanceAdmin_change", actor, i, "saved")
    /\ UNCHANGED <<today, clock, users, plans, passes, memberships, payments, walkin_payments, pending_walkin, inflight, analytics, audit>>

\* ---------------------------------------------------------------- time
Tick ==
    /\ today < MaxDay
    /\ today' = today + 1
    /\ clock' = 0
    /\ last' = Request("tick", None, 0, "ok")
    /\ UNCHANGED db

\* half a minute passes
Advance ==
    /\ clock + 30 <= MaxClock
    /\ clock' = clock + 30
    /\ last' = Request("advance", None, 0, "ok")
    /\ UNCHANGED <<today, db>>

\* The requests of the payment lifecycle, from every kind of user.
Next ==
    \/ \E u \in Clients, p \in 1..MaxPlans : subscribe_plan(u, p)
    \/ \E a \in Clients, p \in 1..MaxMemberships : confirm_payment(a, p)
    \/ \E a \in Clients, p \in 1..MaxMemberships, r \in Reasons : reject_payment(a, p, r)
    \/ \E a \in Clients, i \in 1..MaxMemberships : cancel_membership(a, i)
    \/ Tick

Spec == Init /\ [][Next]_vars

\* The lifecycle together with the expiry job: one member buys and cancels,
\* the staff user decides on the payments.
NextExpiry ==
    \/ \E p \in 1..MaxPlans : subscribe_plan("m1", p)
    \/ \E p \in 1..MaxMemberships : confirm_payment("st", p)
    \/ \E p \in 1..MaxMemberships : reject_payment("st", p, "unpaid")
    \/ \E i \in 1..MaxMemberships : cancel_membership("m1", i)
    \/ expire_memberships
    \/ Tick

SpecExpiry == Init /\ [][NextExpiry]_vars

\* Purchases against a catalogue whose plans are being edited.
NextCatalog ==
    \/ \E u \in Clients, p \in 1..MaxPlans : subscribe_plan(u, p)
    \/ \E a \in Editors, p \in 1..MaxPlans, d \in Durations, pr \in Prices :
          manage_plans_edit(a, p, d, pr)
    \/ Tick

SpecCatalog == Init /\ [][NextCatalog]_vars

\* Every operation that runs while memberships exist: the lifecycle, the
\* expiry job, the catalogue changes by the admin and the kiosk, where the
\* first PIN of the generator is typed.
NextStatus ==
    \/ subscribe_plan("m1", 1)
    \/ \E p \in 1..MaxMemberships : confirm_payment("st", p)
    \/ \E p \in 1..MaxMemberships : reject_payment("st", p, "unpaid")
    \/ \E i \in 1..MaxMemberships : cancel_membership("m1", i)
    \/ expire_memberships
    \/ manage_plans_edit("ad", 1, 2, 15)
    \/ archive_membership_plan("ad", 1)
    \/ restore_membership_plan("ad", 1)
    \/ kiosk_login("111111")
    \/ Tick

SpecStatus == Init /\ [][NextStatus]_vars

\* Everything that stores a payment: purchases and their decisions, walk-in
\* sales with generated and with typed references.
NextReference ==
    \/ subscribe_plan("m1", 1)
    \/ \E p \in 1..MaxMemberships : confirm_payment("st", p)
    \/ \E p \in 1..MaxMemberships : reject_payment("st", p, "unpaid")
    \/ \E r \in TypedReferences : walkin_purchase("st", 1, r)
    \/ \E a \in {"confirm", "cancel"} : walkin_confirm("st", a)
    \/ Tick

SpecReference == Init /\ [][NextReference]_vars

\* PINs issued to two members, by confirmations that run whole, by
\* confirmations that interleave, and by the admin action.
NextPins ==
    \/ \E u \in Members : subscribe_plan(u, 1)
    \/ \E p \in 1..MaxMemberships : confirm_payment("st", p)
    \/ \E p \in 1..MaxMemberships : confirm_payment_begin("st", p)
    \/ \E k \in 1..MaxInflight : confirm_payment_finish(k)
    \/ \E u \in Members : generate_pins_action("ad", u)

SpecPins == Init /\ [][NextPins]_vars

\* A member who buys, gets a PIN and uses the kiosk while the admin changes
\* the Django flags of users.
NextRoles ==
    \/ subscribe_plan("m1", 1)
    \/ \E p \in 1..MaxMemberships : confirm_payment("st", p)
    \/ \E u \in {"m1", "st"} : generate_pins_action("ad", u)
    \/ \E r \in {"member", "staff"}, staff \in BOOLEAN :
          UserAdmin_save_model("ad", "m1", r, staff, FALSE)
    \/ sync_roles
    \/ \E pin \in KioskInputs : kiosk_login(pin)

SpecRoles == Init /\ [][NextRoles]_vars

\* The kiosk over time: a member buys a plan, is confirmed, checks in and
\* out while seconds and days pass, memberships lapse and the expiry job runs.
NextKiosk ==
    \/ subscribe_plan("m1", 1)
    \/ \E p \in 1..MaxMemberships : confirm_payment("st", p)
    \/ expire_memberships
    \/ \E pin \in Pins : kiosk_login(pin)
    \/ Advance
    \/ Tick

SpecKiosk == Init /\ [][NextKiosk]_vars

\* Kiosk submissions served by concurrent workers: a submission reads the
\* open record in one step and writes in a later one.
NextKioskRace ==
    \/ subscribe_plan("m1", 1)
    \/ \E p \in 1..MaxMemberships : confirm_payment("st", p)
    \/ \E pin \in Pins : kiosk_login(pin)
    \/ \E pin \in Pins : kiosk_login_begin(pin)
    \/ \E k \in 1..MaxInflight : kiosk_login_finish(k)
    \/ Advance

SpecKioskRace == Init /\ [][NextKioskRace]_vars

\* Everything that saves an attendance record: the kiosk and the change form
\* of the admin site.
NextAttendance ==
    \/ subscribe_plan("m1", 1)
    \/ \E p \in 1..MaxMemberships : confirm_payment("st", p)
    \/ \E pin \in Pins : kiosk_login(pin)
    \/ \E i \in 1..MaxAttendance, t \in CheckOutInputs : AttendanceAdmin_change("ad", i, t)
    \/ Advance

SpecAttendance == Init /\ [][NextAttendance]_vars

\* The catalogue screens: staff and admin add, edit, toggle, archive and
\* restore membership plans and walk-in passes.
NextArchive ==
    \/ manage_plans_add("ad", 2, 15)
    \/ manage_plans_add_pass("ad", 2, 15)
    \/ manage_plans_edit("ad", 1, 2, 15)
    \/ manage_plans_edit_pass("ad", 1, 2, 15)
    \/ \E p \in 1..MaxPlans : manage_plans_toggle("ad", p)
    \/ \E p \in 1..MaxPlans : manage_plans_toggle_pass("ad", p)
    \/ \E a \in {"st", "ad"}, p \in 1..MaxPlans : archive_membership_plan(a, p)
    \/ \E a \in {"st", "ad"}, p \in 1..MaxPlans : archive_walkin_plan(a, p)
    \/ \E a \in {"st", "ad"}, p \in 1..MaxPlans : restore_membership_plan(a, p)
    \/ \E a \in {"st", "ad"}, p \in 1..MaxPlans : restore_walkin_plan(a, p)
    \/ Tick

SpecArchive == Init /\ [][NextArchive]_vars

\* Purchases and walk-in sales against a catalogue that is archived,
\* restored and toggled meanwhile.
NextArchiveSale ==
    \/ subscribe_plan("m1", 1)
    \/ walkin_purchase("st", 1, <<>>)
    \/ \E a \in {"confirm", "cancel"} : walkin_confirm("st", a)
    \/ archive_membership_plan("ad", 1)
    \/ archive_walkin_plan("ad", 1)
    \/ restore_membership_plan("ad", 1)
    \/ restore_walkin_plan("ad", 1)
    \/ manage_plans_toggle("st", 1)
    \/ manage_plans_toggle_pass("st", 1)

SpecArchiveSale == Init /\ [][NextArchiveSale]_vars

\* Deleting from a catalogue that has been sold from.
NextDelete ==
    \/ manage_plans_add("ad", 2, 15)
    \/ manage_plans_add_pass("ad", 2, 15)
    \/ \E p \in 1..MaxPlans : subscribe_plan("m1", p)
    \/ \E p \in 1..MaxMemberships : reject_payment("st", p, "unpaid")
    \/ \E p \in 1..MaxPlans : walkin_purchase("st", p, <<>>)
    \/ walkin_confirm("st", "confirm")
    \/ \E a \in {"st", "ad"}, p \in 1..MaxPlans : manage_plans_delete(a, p)
    \/ \E a \in {"st", "ad"}, p \in 1..MaxPlans : manage_plans_delete_pass(a, p)

SpecDelete == Init /\ [][NextDelete]_vars

\* The ledger and its daily snapshots: purchases, decisions and walk-in
\* sales over several days, the reports page and the nightly job.
NextAnalytics ==
    \/ subscribe_plan("m1", 1)
    \/ \E p \in 1..MaxMemberships : confirm_payment("st", p)
    \/ walkin_purchase("st", 1, <<>>)
    \/ walkin_confirm("st", "confirm")
    \/ \E a \in {"st", "ad"} : reports_view(a)
    \/ expire_memberships
    \/ Tick

SpecAnalytics == Init /\ [][NextAnalytics]_vars

\* Everything that writes audit entries, and the deletion of a staff account
\* in the admin site.
NextAudit ==
    \/ subscribe_plan("m1", 1)
    \/ \E p \in 1..MaxMemberships : confirm_payment("st", p)
    \/ \E p \in 1..MaxMemberships : reject_payment("st", p, "unpaid")
    \/ walkin_purchase("st", 1, <<>>)
    \/ walkin_confirm("st", "confirm")
    \/ kiosk_login("111111")
    \/ manage_plans_toggle("st", 1)
    \/ UserAdmin_delete_model("ad", "st")

SpecAudit == Init /\ [][NextAudit]_vars

\* Requests by users who lack the role for them, next to the purchases and
\* decisions that give them something to aim at.
NextDenied ==
    \/ subscribe_plan("m1", 1)
    \/ \E a \in {"m1", "st"} : confirm_payment(a, 1)
    \/ reject_payment("m1", 1, "unpaid")
    \/ walkin_purchase("m1", 1, <<>>)
    \/ walkin_confirm("m1", "confirm")
    \/ \E a \in {"st", "ad"} : archive_membership_plan(a, 1)
    \/ restore_membership_plan("st", 1)
    \/ \E a \in {"m1", "st"} : manage_plans_delete(a, 1)
    \/ reports_view("st")
    \/ \E a \in {"st", "ad"} : audit_trail_view(a)

SpecDenied == Init /\ [][NextDenied]_vars

\* Decisions on payments served by concurrent workers: each request loads
\* the payment, saves it, and saves the membership, as three steps.
NextDecisionRace ==
    \/ subscribe_plan("m1", 1)
    \/ \E op \in {"confirm_payment", "reject_payment"}, p \in 1..MaxMemberships :
          payment_decision_load(op, "st", p)
    \/ \E k \in 1..MaxInflight : payment_decision_save(k)
    \/ \E k \in 1..MaxInflight : payment_decision_finish(k)

SpecDecisionRace == Init /\ [][NextDecisionRace]_vars

\* The generators step by step, one call at a time: a draw, the exists()
\* test, and another round when the candidate is taken.
NextGenerate ==
    \/ \E u \in Members : inflight = <<>> /\ generate_kiosk_pin_call(u)
    \/ \E pin \in Pins : generate_kiosk_pin_draw(1, pin)
    \/ generate_kiosk_pin_check(1)
    \/ \E u \in Members : inflight = <<>> /\ subscribe_plan_call(u, 1)
    \/ \E s \in Suffixes : generate_reference_number_draw(1, s)
    \/ generate_reference_number_check(1)

SpecGenerate == Init /\ [][NextGenerate]_vars

\* random.randint is fair: a candidate that can be drawn again and again is
\* drawn at some time; a request that can go on does go on
SpecGenerateFair ==
    /\ SpecGenerate
    /\ WF_vars(generate_kiosk_pin_check(1))
    /\ WF_vars(generate_reference_number_check(1))
    /\ \A pin \in Pins : SF_vars(generate_kiosk_pin_draw(1, pin))
    /\ \A s \in Suffixes : SF_vars(generate_reference_number_draw(1, s))

\* ================================================================ claims

\* the step is a purchase that created rows
Purchased == last.op = "subscribe_plan" /\ last.result = "created"
\* the step is a confirmation / a rejection that went through
Confirmed == last.op = "confirm_payment" /\ last.result = "confirmed"
Rejected == last.op = "reject_payment" /\ last.result = "rejected"

\* every row but row k of table t is left as it was
OthersUnchanged(t, t2, k) ==
    /\ DOMAIN t2 = DOMAIN t
    /\ \A j \in DOMAIN t \ {k} : t2[j] = t[j]

\* C1: a purchase by a member of an available plan appends exactly one
\* membership, pending and starting today, and exactly one payment for it,
\* pending, of the plan's price and with a reference number no stored payment
\* has; no user row (so no kiosk PIN) changes.
C1_PurchaseCreatesPending ==
    [][ Purchased' =>
          /\ Len(memberships') = Len(memberships) + 1
          /\ SubSeq(memberships', 1, Len(memberships)) = memberships
          /\ Len(payments') = Len(payments) + 1
          /\ SubSeq(payments', 1, Len(payments)) = payments
          /\ LET mid == Len(memberships')
                 m == memberships'[mid]
                 p == payments'[Len(payments')]
             IN  /\ m.user = last'.actor
                 /\ m.plan = last'.target
                 /\ m.status = "pending"
                 /\ m.start_date = today
                 /\ p.user = last'.actor
                 /\ p.membership = mid
                 /\ p.status = "pending"
                 /\ p.amount = plans[last'.target].price
                 /\ \A i \in DOMAIN payments :
                        payments[i].reference_no # p.reference_no
          /\ users' = users ]_vars

\* C2: no user ever has two memberships whose stored status is active.
C2_AtMostOneActive ==
    \A u \in Users : Cardinality(ActiveMemberships(u)) <= 1

\* what a confirmation does to the payment rows and to the user rows
ConfirmWritesPaymentAndPin ==
    LET pid == last'.target
        p == payments[pid]
        u == p.user
    IN  /\ p.status = "pending"
        /\ payments'[pid] = [p EXCEPT !.status = "confirmed",
                                      !.approved_by = last'.actor,
                                      !.approved_at = today]
        /\ last'.actor # None
        /\ OthersUnchanged(payments, payments', pid)
        /\ IF users[u].kiosk_pin = None
           THEN /\ users'[u].kiosk_pin \in Pins
                /\ \A v \in Users \ {u} : users[v].kiosk_pin # users'[u].kiosk_pin
           ELSE users'[u].kiosk_pin = users[u].kiosk_pin
        /\ \A v \in Users \ {u} : users'[v] = users[v]

C4_OnlyPendingIsDecided ==
    [][ /\ ( /\ last'.op \in {"confirm_payment", "reject_payment"}
             /\ last'.target \in DOMAIN payments
             /\ payments[last'.target].status # "pending" )
           => UNCHANGED <<payments, memberships, users>>
        /\ \A i \in DOMAIN payments :
              payments[i].status # "pending" => payments'[i] = payments[i]
        /\ \A i \in DOMAIN payments :
              payments[i].status = "rejected" =>
                  ( memberships[payments[i].membership].status # "active"
                    => memberships'[payments[i].membership].status # "active" )
      ]_vars

\* a second confirm of a confirmed payment has been refused
C4_Witness ==
    /\ last.op = "confirm_payment"
    /\ last.result = "not_found"
    /\ last.target \in DOMAIN payments
    /\ payments[last.target].status = "confirmed"

\* what a rejection does to the payment rows
RejectWritesPayment ==
    LET pid == last'.target
        p == payments[pid]
    IN  /\ p.status = "pending"
        /\ \E r \in Reasons :
              payments'[pid] = [p EXCEPT !.status = "rejected",
                                         !.approved_by = last'.actor,
                                         !.approved_at = today,
                                         !.rejection_reason = r]
        /\ last'.actor # None
        /\ OthersUnchanged(payments, payments', pid)

C7_CancelFromActive ==
    [][ last'.op = "cancel_membership" =>
          IF /\ last'.target \in DOMAIN memberships
             /\ memberships[last'.target].status = "active"
             /\ last'.actor # None
             /\ MayCancel(last'.actor, memberships[last'.target])
          THEN /\ memberships'[last'.target] =
                     [memberships[last'.target] EXCEPT !.status = "cancelled"]
               /\ OthersUnchanged(memberships, memberships', last'.target)
          ELSE memberships' = memberships ]_vars

\* C8: a membership whose end_date is before today is not returned by any
\* read of the active membership: the dashboard and plans page lookup, the
\* purchase precondition, the kiosk access check.
C8_ReadsReportEnded ==
    \A i \in DOMAIN memberships :
        memberships[i].end_date < today =>
            /\ i \notin current_membership(memberships[i].user)
            /\ i \notin ActiveMemberships(memberships[i].user)
            /\ i \notin kiosk_memberships(memberships[i].user)

\* C9: the expiry job leaves no membership active with end_date before today,
\* turns exactly the active memberships past their end_date to expired and
\* changes no other membership and no payment, user or plan.
C9_SweepExpiresExactly ==
    [][ last'.op = "expire_memberships" =>
          /\ DOMAIN memberships' = DOMAIN memberships
          /\ \A i \in DOMAIN memberships :
                /\ ~(memberships'[i].status = "active" /\ memberships'[i].end_date < today')
                /\ memberships'[i] =
                      IF memberships[i].status = "active" /\ memberships[i].end_date < today
                      THEN [memberships[i] EXCEPT !.status = "expired"]
                      ELSE memberships[i]
          /\ UNCHANGED <<payments, users, plans, today>> ]_vars

\* the job has just expired at least one membership
C9_Witness ==
    /\ last.op = "expire_memberships"
    /\ last.target >= 1
    /\ \E i \in DOMAIN memberships : memberships[i].status = "expired"

\* C10 as claimed: every membership ends start_date + (its plan's
\* duration_days) days, whatever edits the plan has had.
C10_EndDateTracksPlan ==
    \A i \in DOMAIN memberships :
        memberships[i].end_date =
            memberships[i].start_date + plans[memberships[i].plan].duration_days

\* C10 amended: a membership is created with end_date = start_date + the
\* duration_days its plan has at the purchase, and no later step (a plan edit
\* among them) changes its start_date or end_date.
C10_EndDateFixedAtPurchase ==
    [][ /\ \A i \in DOMAIN memberships' \ DOMAIN memberships :
              /\ memberships'[i].start_date = today
              /\ memberships'[i].end_date =
                    today + plans[memberships'[i].plan].duration_days
        /\ \A i \in DOMAIN memberships :
              /\ i \in DOMAIN memberships'
              /\ memberships'[i].start_date = memberships[i].start_date
              /\ memberships'[i].end_date = memberships[i].end_date ]_vars

\* a plan has been edited after a purchase: the membership no longer ends
\* start_date + duration_days of the plan as it is now
C10_Witness ==
    /\ last.op = "manage_plans_edit"
    /\ last.result = "updated"
    /\ \E i \in DOMAIN memberships :
          /\ memberships[i].plan = last.target
          /\ memberships[i].end_date #
                memberships[i].start_date + plans[memberships[i].plan].duration_days

C12_PinsDistinct ==
    \A u, v \in Users :
        (u # v /\ users[u].kiosk_pin # None) => users[u].kiosk_pin # users[v].kiosk_pin

\* two interleaved confirmations for different users drew the same PIN; the
\* first has stored it and the second was stopped
C12_Witness ==
    /\ last.op = "confirm_payment"
    /\ last.result = "IntegrityError"
    /\ \E u \in Users : users[u].kiosk_pin # None
    /\ \E i, j \in DOMAIN payments :
          /\ payments[i].user # payments[j].user
          /\ payments[i].status = "confirmed"
          /\ payments[j].status = "confirmed"

\* C13: every user whose kiosk PIN is set has role member.
C13_PinOnlyOnMembers ==
    \A u \in Users : users[u].kiosk_pin # None => users[u].role = "member"

\* the members that hold the PIN
MembersWithPin(pin) ==
    {u \in Users : users[u].kiosk_pin = pin /\ users[u].role = "member"}

\* C14: a kiosk submission whose PIN is not six digits, or is held by no
\* user, or is held by a user who is not a member, opens and closes no
\* attendance record and changes no user, membership or payment.
C14_BadPinChangesNothing ==
    [][ \A pin \in KioskInputs :
          ( kiosk_login(pin) /\ (pin \notin SixDigit \/ MembersWithPin(pin) = {}) )
          => UNCHANGED <<attendance, users, memberships, payments>> ]_vars

\* the PIN of a user who became staff has been refused at the kiosk
C14_Witness ==
    /\ last.op = "kiosk_login"
    /\ last.result = "invalid_pin"
    /\ \E u \in Users :
          /\ users[u].kiosk_pin # None
          /\ users[u].role # "member"
          /\ kiosk_memberships(u) # {}

\* C15: a kiosk submission with the PIN of a member who has no subscription
\* with status active and end_date on or after today is refused and leaves
\* the attendance records as they were.
C15_NoMembershipRefused ==
    [][ \A pin \in Pins :
          ( /\ kiosk_login(pin)
            /\ \E u \in MembersWithPin(pin) :
                  ~ \E i \in DOMAIN memberships :
                        /\ memberships[i].user = u
                        /\ memberships[i].status = "active"
                        /\ memberships[i].end_date >= today )
          => /\ last'.result = "no_membership"
             /\ UNCHANGED attendance ]_vars

\* a member whose active membership ended yesterday was refused at the kiosk
C15_Witness ==
    /\ last.op = "kiosk_login"
    /\ last.result = "no_membership"
    /\ \E i \in DOMAIN memberships :
          /\ memberships[i].user = last.actor
          /\ memberships[i].status = "active"
          /\ memberships[i].end_date < today

\* the attendance records of u with no check-out
OpenRecords(u) ==
    {i \in DOMAIN attendance :
        attendance[i].user = u /\ attendance[i].check_out = NoDate}

\* u has a subscription with status active that has not ended
Admitted(u) ==
    \E i \in DOMAIN memberships :
        /\ memberships[i].user = u
        /\ memberships[i].status = "active"
        /\ memberships[i].end_date >= today

\* C16: whenever a member has an attendance record with no check-out, a kiosk
\* submission with that member's PIN sets the check-out of that record and
\* opens no new record; otherwise the submission (of a member who is
\* admitted) opens a new record.
C16_KioskToggles ==
    [][ \A pin \in Pins : \A u \in MembersWithPin(pin) :
          kiosk_login(pin) =>
             IF OpenRecords(u) # {}
             THEN /\ Len(attendance') = Len(attendance)
                  /\ \E i \in OpenRecords(u) : attendance'[i].check_out # NoDate
             ELSE Admitted(u) =>
                  /\ Len(attendance') = Len(attendance) + 1
                  /\ attendance'[Len(attendance')].user = u
                  /\ attendance'[Len(attendance')].check_out = NoDate ]_vars

\* C17: in every reachable state each user has at most one attendance record
\* with no check-out, also when two kiosk submissions with the same PIN are
\* interleaved.
C17_OneOpenRecord ==
    \A u \in Users : Cardinality(OpenRecords(u)) <= 1

\* C18: for every attendance record, duration_minutes is null exactly while
\* check_out is null, and on a closed record duration_minutes is the whole
\* number of minutes floor((check_out - check_in) / 60 seconds).
C18_DurationOfClosedRecords ==
    \A i \in DOMAIN attendance :
        /\ (attendance[i].duration_minutes = NoDate) <=> (attendance[i].check_out = NoDate)
        /\ attendance[i].check_out # NoDate =>
              attendance[i].duration_minutes =
                  (attendance[i].check_out - attendance[i].check_in) \div 60

\* the catalogue row is archived by actor now
ArchivedNow(row, actor) ==
    /\ row.is_archived
    /\ ~row.is_active
    /\ row.archived_by = actor
    /\ row.archived_at = today

\* the catalogue row is back on sale with no trace of the archiving
RestoredNow(row) ==
    /\ ~row.is_archived
    /\ row.is_active
    /\ row.archived_by = None
    /\ row.archived_at = NoDate

\* C19: archiving a plan or pass sets is_archived true and is_active false
\* and records the acting user and the time; restoring an archived plan or
\* pass sets is_archived false and is_active true and clears actor and time;
\* restore is refused, and writes nothing, for a plan or pass that is not
\* archived.
C19_ArchiveAndRestore ==
    [][ \A a \in {"st", "ad"}, p \in 1..MaxPlans :
          /\ (last'.op = "archive_membership_plan" /\ archive_membership_plan(a, p) /\ is_admin(a) /\ PlanExists(p))
                => ArchivedNow(plans'[p], a)
          /\ (last'.op = "archive_walkin_plan" /\ archive_walkin_plan(a, p) /\ is_admin(a) /\ PassExists(p))
                => ArchivedNow(passes'[p], a)
          /\ (last'.op = "restore_membership_plan" /\ restore_membership_plan(a, p) /\ is_admin(a) /\ PlanExists(p))
                => IF plans[p].is_archived
                   THEN RestoredNow(plans'[p])
                   ELSE last'.result = "not_found" /\ UNCHANGED <<plans, passes>>
          /\ (last'.op = "restore_walkin_plan" /\ restore_walkin_plan(a, p) /\ is_admin(a) /\ PassExists(p))
                => IF passes[p].is_archived
                   THEN RestoredNow(passes'[p])
                   ELSE last'.result = "not_found" /\ UNCHANGED <<plans, passes>> ]_vars

\* a pass has been restored while a plan is archived
C19_Witness ==
    /\ last.op = "restore_walkin_plan"
    /\ last.result = "restored"
    /\ RestoredNow(passes[last.target])
    /\ \E p \in DOMAIN plans : ArchivedNow(plans[p], "ad")

\* C20: after any sequence of add, edit, toggle, archive and restore
\* operations on the catalogue, every plan or pass with is_archived true has
\* is_active false.
C20_ArchivedIsInactive ==
    /\ \A p \in DOMAIN plans : plans[p].is_archived => ~plans[p].is_active
    /\ \A p \in DOMAIN passes : passes[p].is_archived => ~passes[p].is_active

\* C21: no subscription is created against a membership plan that is archived
\* at the time of purchase and no walk-in sale against a pass archived at the
\* time of sale; subscriptions and sales made before an archive keep their
\* reference and are not changed by archiving.
C21_NoSaleOfArchived ==
    [][ /\ \A i \in DOMAIN memberships' :
              i \notin DOMAIN memberships => ~plans[memberships'[i].plan].is_archived
        /\ \A i \in DOMAIN walkin_payments' :
              i \notin DOMAIN walkin_payments =>
                  ~passes[walkin_payments'[i].pass_type].is_archived
        /\ last'.op \in {"archive_membership_plan", "archive_walkin_plan"} =>
              UNCHANGED <<memberships, payments, walkin_payments>> ]_vars

\* C22: deleting a membership plan that a subscription references, or a
\* walk-in pass that a sale references, is rejected: the plan or pass and
\* every referencing record stay as they are, so every subscription and every
\* sale keeps pointing at a row of the catalogue.
C22_ReferencedNotDeleted ==
    [][ /\ \A a \in {"st", "ad"}, p \in 1..MaxPlans :
            /\ ( /\ last'.op = "manage_plans_delete"
                 /\ manage_plans_delete(a, p)
                 /\ \E i \in DOMAIN memberships : memberships[i].plan = p )
                  => /\ last'.result # "deleted"
                     /\ UNCHANGED <<plans, passes, memberships, payments, walkin_payments>>
            /\ ( /\ last'.op = "manage_plans_delete_pass"
                 /\ manage_plans_delete_pass(a, p)
                 /\ \E i \in DOMAIN walkin_payments : walkin_payments[i].pass_type = p )
                  => /\ last'.result # "deleted"
                     /\ UNCHANGED <<plans, passes, memberships, payments, walkin_payments>>
        /\ \A i \in DOMAIN memberships' : ~plans'[memberships'[i].plan].deleted
        /\ \A i \in DOMAIN walkin_payments' :
              ~passes'[walkin_payments'[i].pass_type].deleted ]_vars

\* the admin's delete of a pass that has been sold ended in ProtectedError,
\* while an unsold plan has been deleted
C22_Witness ==
    /\ last.op = "manage_plans_delete_pass"
    /\ last.result = "ProtectedError"
    /\ \E i \in DOMAIN walkin_payments :
          walkin_payments[i].pass_type = last.target /\ ~passes[last.target].deleted
    /\ \E p \in DOMAIN plans : plans[p].deleted

\* the operations that recompute the snapshot of today
Recomputes == {"reports_view", "expire_memberships"}

\* C23: there is at most one analytics snapshot per calendar date, and a
\* recompute for a date that follows a recompute for the same date with no
\* ledger change in between leaves the snapshots as the first run left them.
C23_OneSnapshotPerDate ==
    [][ /\ \A i, j \in DOMAIN analytics' :
              analytics'[i].date = analytics'[j].date => i = j
        /\ ( /\ last.op \in Recomputes /\ last.result = "ok"
             /\ last'.op \in Recomputes /\ last'.result = "ok" )
           => /\ analytics' = analytics
              /\ Cardinality({i \in DOMAIN analytics' : analytics'[i].date = today}) = 1 ]_vars

\* the reports page has recomputed the snapshot of a day with a sale, and
\* the snapshot of an earlier day is still there
C23_Witness ==
    /\ last.op = "reports_view"
    /\ last.result = "ok"
    /\ Len(analytics) >= 2
    /\ \E i \in DOMAIN analytics :
          analytics[i].date = today /\ analytics[i].total_sales > 0

\* C24: the audit trail is append-only: every operation leaves the entries
\* already written as they are, and at most adds entries after them.
C24_AuditAppendOnly ==
    [][ /\ Len(audit') >= Len(audit)
        /\ \A i \in DOMAIN audit : audit'[i] = audit[i] ]_vars

\* C25: a request that fails its role check changes no user, plan, pass,
\* subscription or payment, and appends an audit entry with severity warning.
C25_DeniedIsLogged ==
    [][ last'.result \in {"denied", "admin_only"} =>
          /\ UNCHANGED <<users, plans, passes, memberships, payments, walkin_payments>>
          /\ Len(audit') = Len(audit) + 1
          /\ audit'[Len(audit')].severity = "warning" ]_vars

\* C26: archiving a plan or pass that is already archived (and inactive, as
\* the first archive left it) is aborted with no state change: is_archived,
\* is_active, archived_at and archived_by keep the values set by the first
\* archive.
C26_RearchiveKeepsFirst ==
    [][ \A a \in {"st", "ad"}, p \in 1..MaxPlans :
          /\ ( /\ last'.op = "archive_membership_plan"
               /\ archive_membership_plan(a, p)
               /\ PlanExists(p) /\ plans[p].is_archived /\ ~plans[p].is_active )
                => plans'[p] = plans[p]
          /\ ( /\ last'.op = "archive_walkin_plan"
               /\ archive_walkin_plan(a, p)
               /\ PassExists(p) /\ passes[p].is_archived /\ ~passes[p].is_active )
                => passes'[p] = passes[p] ]_vars

\* C27: when a confirm request and a reject request for the same pending
\* payment are interleaved, the state they leave is consistent: a payment
\* that ends rejected has a subscription that is not active, and a payment
\* that ends confirmed has a subscription that is not cancelled.
C27_DecisionsConsistent ==
    inflight = <<>> =>
        \A p \in DOMAIN payments :
            /\ payments[p].status = "rejected" =>
                  memberships[payments[p].membership].status # "active"
            /\ payments[p].status = "confirmed" =>
                  memberships[payments[p].membership].status # "cancelled"

\* C28: every request that mutates the subscription or payment ledger has
\* appended an audit entry naming its actor by the time it has ended; for
\* confirmations: once no request is in flight, each staff user has at least
\* as many confirmation entries in the audit trail as payments confirmed.
C28_LedgerChangeIsAudited ==
    inflight = <<>> =>
        \A a \in Users :
            Cardinality({p \in DOMAIN payments :
                            payments[p].status = "confirmed" /\ payments[p].approved_by = a})
            <= Cardinality({i \in DOMAIN audit :
                            audit[i].action = "payment_received" /\ audit[i].user = a})

\* a candidate of the generator g is not stored
UnusedCandidate(g) ==
    IF g.op = "generate_kiosk_pin"
    THEN \E pin \in Pins : \A u \in Users : users[u].kiosk_pin # pin
    ELSE \E sfx \in Suffixes :
            \A i \in DOMAIN payments : payments[i].reference_no # Reference(today, sfx)

\* C29: PIN generation and reference-number generation retry with a fresh
\* random candidate until the candidate is not stored; the value returned is
\* never one that was stored at the moment of the check; and under fair
\* random choice the call returns whenever a candidate is unused.
C29_GeneratorsReturnFresh ==
    /\ [][ /\ ( last'.op = "generate_kiosk_pin" /\ last'.result = "returned" )
              => /\ \A u \in Users : users[u].kiosk_pin # inflight[1].candidate
                 /\ users'[inflight[1].user].kiosk_pin = inflight[1].candidate
           /\ ( last'.op = "generate_reference_number" /\ last'.result = "returned" )
              => /\ \A i \in DOMAIN payments :
                       payments[i].reference_no # Reference(today, inflight[1].candidate)
                 /\ payments'[Len(payments')].reference_no
                       = Reference(today, inflight[1].candidate) ]_vars
    /\ (inflight # <<>> /\ UnusedCandidate(inflight[1])) ~> (inflight = <<>>)

\* a PIN was returned after a candidate that was taken had been thrown away
C29_Witness ==
    /\ last.op = "generate_kiosk_pin"
    /\ last.result = "returned"
    /\ last.target = 1
    /\ \A u \in Members : users[u].kiosk_pin # None

RECURSIVE AmountsDated(_, _, _)
\* the sum of the amounts of the first n rows that are dated day
AmountsDated(rows, n, day) ==
    IF n = 0 THEN 0
    ELSE (IF rows[n].payment_date = day THEN rows[n].amount ELSE 0)
         + AmountsDated(rows, n - 1, day)

\* C30: the snapshot recomputed for a date D holds the number of
\* subscriptions active on D (status active, start_date <= D <= end_date),
\* the number of walk-in sales dated D, and total revenue equal to the sum of
\* the amounts of the member payments dated D plus the amounts of the
\* walk-in sales dated D.
C30_SnapshotOfTheDay ==
    [][ (last'.op \in Recomputes /\ last'.result = "ok")
        => \E i \in DOMAIN analytics' :
              /\ analytics'[i].date = today
              /\ analytics'[i].total_members =
                    Cardinality({m \in DOMAIN memberships' :
                        /\ memberships'[m].status = "active"
                        /\ memberships'[m].start_date <= today
                        /\ today <= memberships'[m].end_date})
              /\ analytics'[i].total_passes =
                    Cardinality({w \in DOMAIN walkin_payments' :
                        walkin_payments'[w].payment_date = today})
              /\ analytics'[i].total_sales =
                    AmountsDated(payments', Len(payments'), today)
                    + AmountsDated(walkin_payments', Len(walkin_payments'), today) ]_vars

\* a snapshot was recomputed on a day with an active subscription, a member
\* payment and a walk-in sale, while a walk-in sale of another day is stored
C30_Witness ==
    /\ last.op \in Recomputes
    /\ last.result = "ok"
    /\ \E i \in DOMAIN analytics :
          /\ analytics[i].date = today
          /\ analytics[i].total_members > 0
          /\ analytics[i].total_passes > 0
    /\ \E p \in DOMAIN payments : payments[p].payment_date = today
    /\ \E w \in DOMAIN walkin_payments : walkin_payments[w].payment_date # today

====
